---- MODULE Spec2Model ----
(***************************************************************************)
(* Model of package set (quenbyako/set): the non-threadsafe set            *)
(* (set_nots.go, type set), the threadsafe set (set_ts.go, type setm), the *)
(* hash-identity set (set_hash.go, type setAny) and the set algebra        *)
(* functions of set.go.                                                    *)
(*                                                                         *)
(* Sets live in a heap of objects and are used through references, as Go   *)
(* interface values holding pointers (or maps) are: two references to one  *)
(* object see each other's writes.  A method is an operator from a heap    *)
(* to the set of its possible outcomes, one per iteration order Go may     *)
(* choose for `range` over a map.                                          *)
(***************************************************************************)
EXTENDS Integers, Sequences, FiniteSets, TLC

\* ------------------------------------------------------------- bounds
\* The elements the program's calls are tried with are 1..MaxElem.
MaxElem == 3
\* Longest variadic argument list items ...T passed to Add and Remove.
MaxItems == 1
\* Longest variadic argument list sets ...Set[T] passed to an algebra function.
MaxMore == 1
\* Longest variadic argument list items ...T passed to Has.
MaxHas == 2
\* Goroutines that call Add and Remove on the shared sets.
NWorkers == 2
\* Elements in the range each of them adds.
PerWorker == 2
\* Most elements a shared set holds when the goroutines start.
MaxShared == 2

Elem == 1..MaxElem
Variants == {"nots", "ts", "any"}
\* The program's two set variables.
Vars == {"s", "t"}

\* ------------------------------------------------------------- values
\* type null = struct{}: the marker stored for every key of set.m
null == "null"
\* var t T: the zero value Pop returns for an empty set
ZeroT == 0

\* The element type's Hash method (interface Hashable).  It is supplied by
\* the caller; the one modelled here sends 1,2 to 1, 3,4 to 2, ... so that
\* distinct elements collide, and fails for values below 1.
Hash(item) == [h |-> (item + 1) \div 2, err |-> item < 1]

\* An element whose Hash method returns an error.
BadElem == 0

\* ------------------------------------------------------------- Go maps
\* m[k] = v
MapPut(m, k, v) == [x \in (DOMAIN m) \cup {k} |-> IF x = k THEN v ELSE m[x]]
\* delete(m, k)
MapDelete(m, k) == [x \in (DOMAIN m) \ {k} |-> m[x]]
\* make(map[K]V)
EmptyMap == <<>>
\* len(m)
MapLen(m) == Cardinality(DOMAIN m)

\* The orders in which `for k := range m` may visit a set of keys.
RECURSIVE Orders(_)
Orders(S) ==
    IF S = {} THEN {<<>>}
    ELSE UNION {{<<x>> \o o : o \in Orders(S \ {x})} : x \in S}

\* ------------------------------------------------------------- outcomes
\* What a call leaves behind: the heap, the returned value and whether the
\* call returned ("none"), panicked ("panic") or blocks forever ("deadlock").
Ret(h, val) == [h |-> h, val |-> val, fault |-> "none"]
Panic(h) == [h |-> h, val |-> ZeroT, fault |-> "panic"]
Deadlock(h) == [h |-> h, val |-> ZeroT, fault |-> "deadlock"]
\* A panic in a method that returns a bool.
PanicBool(h) == [h |-> h, val |-> FALSE, fault |-> "panic"]

\* ------------------------------------------------------------- factories
newNonTS == [kind |-> "nots", m |-> EmptyMap]
newTS == [kind |-> "ts", m |-> EmptyMap]
newAnyNonTS == [kind |-> "any", m |-> EmptyMap]
\* New, NewNonTS, NewAnyNonTS
New(kind) ==
    CASE kind = "nots" -> newNonTS
      [] kind = "ts" -> newTS
      [] kind = "any" -> newAnyNonTS

\* A new object on the heap: its reference is the next free index.
Alloc(h, obj) == [h |-> Append(h, obj), val |-> Len(h) + 1, fault |-> "none"]

\* ------------------------------------------------------------- Add
RECURSIVE set_Add(_, _, _)
set_Add(h, r, items) ==
    IF items = <<>> THEN Ret(h, r)
    ELSE set_Add([h EXCEPT ![r].m = MapPut(@, Head(items), null)], r, Tail(items))

\* setm.Add takes the lock and calls s.set.Add() with no arguments.
setm_Add(h, r, items) ==
    IF Len(items) = 0 THEN Ret(h, r)
    ELSE set_Add(h, r, <<>>)

\* An Add that keeps the value already stored under a hash.
RECURSIVE setAny_AddKeep(_, _, _)
setAny_AddKeep(h, r, items) ==
    IF items = <<>> THEN Ret(h, r)
    ELSE LET hs == Hash(Head(items)) IN
         IF hs.err THEN Panic(h)
         ELSE IF hs.h \in DOMAIN h[r].m THEN setAny_AddKeep(h, r, Tail(items))
         ELSE setAny_AddKeep([h EXCEPT ![r].m = MapPut(@, hs.h, Head(items))], r, Tail(items))

RECURSIVE setAny_Add(_, _, _)
setAny_Add(h, r, items) ==
    IF items = <<>> THEN Ret(h, r)
    ELSE LET hs == Hash(Head(items)) IN
         IF hs.err THEN Panic(h)
         ELSE setAny_Add([h EXCEPT ![r].m = MapPut(@, hs.h, Head(items))], r, Tail(items))

\* Set[T].Add, dispatched on the dynamic type
Add(h, r, items) ==
    CASE h[r].kind = "nots" -> set_Add(h, r, items)
      [] h[r].kind = "ts" -> setm_Add(h, r, items)
      [] h[r].kind = "any" -> setAny_Add(h, r, items)

\* ------------------------------------------------------------- Remove
RECURSIVE set_Remove(_, _, _)
set_Remove(h, r, items) ==
    IF items = <<>> THEN Ret(h, r)
    ELSE set_Remove([h EXCEPT ![r].m = MapDelete(@, Head(items))], r, Tail(items))

\* setm.Remove takes the lock and calls s.set.Remove() with no arguments.
setm_Remove(h, r, items) ==
    IF Len(items) = 0 THEN Ret(h, r)
    ELSE set_Remove(h, r, <<>>)

\* A mushHash that overlooks the error.
mushHashQuiet(item) == [h |-> Hash(item).h, err |-> FALSE]

\* h, err := item.Hash(); if err != nil { panic(err) }; return h: the callers
\* below end in Panic when err is set.
mushHash(item) == Hash(item)

RECURSIVE setAny_Remove(_, _, _)
setAny_Remove(h, r, items) ==
    IF items = <<>> THEN Ret(h, r)
    ELSE LET hs == mushHash(Head(items)) IN
         IF hs.err THEN Panic(h)
         ELSE setAny_Remove([h EXCEPT ![r].m = MapDelete(@, hs.h)], r, Tail(items))

Remove(h, r, items) ==
    CASE h[r].kind = "nots" -> set_Remove(h, r, items)
      [] h[r].kind = "ts" -> setm_Remove(h, r, items)
      [] h[r].kind = "any" -> setAny_Remove(h, r, items)

\* ------------------------------------------------------------- Pop
\* A returned (T, bool) pair.
Pair(item, found) == [item |-> item, found |-> found]

\* A Pop that returns an item and deletes every item.
set_PopAll(h, r) ==
    IF DOMAIN h[r].m = {} THEN {Ret(h, Pair(ZeroT, FALSE))}
    ELSE {Ret([h EXCEPT ![r].m = EmptyMap], Pair(item, TRUE)) : item \in DOMAIN h[r].m}

\* for item := range s.m { delete(s.m, item); return item, true }
set_Pop(h, r) ==
    IF DOMAIN h[r].m = {} THEN {Ret(h, Pair(ZeroT, FALSE))}
    ELSE {Ret([h EXCEPT ![r].m = MapDelete(@, item)], Pair(item, TRUE)) :
            item \in DOMAIN h[r].m}

\* With no other thread running, the element chosen under the read lock is
\* still there when the write lock is taken.
setm_Pop(h, r) ==
    IF DOMAIN h[r].m = {} THEN {Ret(h, Pair(ZeroT, FALSE))}
    ELSE {Ret([h EXCEPT ![r].m = MapDelete(@, item)], Pair(item, TRUE)) :
            item \in DOMAIN h[r].m}

\* for h, item := range s { defer delete(s, h); return item, true }
setAny_Pop(h, r) ==
    IF DOMAIN h[r].m = {} THEN {Ret(h, Pair(ZeroT, FALSE))}
    ELSE {Ret([h EXCEPT ![r].m = MapDelete(@, k)], Pair(h[r].m[k], TRUE)) :
            k \in DOMAIN h[r].m}

Pop(h, r) ==
    CASE h[r].kind = "nots" -> set_Pop(h, r)
      [] h[r].kind = "ts" -> setm_Pop(h, r)
      [] h[r].kind = "any" -> setAny_Pop(h, r)

\* ------------------------------------------------------------- Has
RECURSIVE set_HasLoop(_, _, _)
set_HasLoop(h, r, items) ==
    IF items = <<>> THEN Ret(h, TRUE)
    ELSE IF Head(items) \notin DOMAIN h[r].m THEN Ret(h, FALSE)
    ELSE set_HasLoop(h, r, Tail(items))

\* A Has that looks for the first of the items only.
set_HasFirst(h, r, items) ==
    IF Len(items) = 0 THEN Ret(h, FALSE) ELSE set_HasLoop(h, r, <<Head(items)>>)

set_Has(h, r, items) ==
    IF Len(items) = 0 THEN Ret(h, FALSE) ELSE set_HasLoop(h, r, items)

\* has := true; for ... { if _, has = s.m[item]; !has { break } }; return has
setm_Has(h, r, items) ==
    IF Len(items) = 0 THEN Ret(h, FALSE) ELSE set_HasLoop(h, r, items)

RECURSIVE setAny_HasLoop(_, _, _)
setAny_HasLoop(h, r, items) ==
    IF items = <<>> THEN Ret(h, TRUE)
    ELSE LET hs == mushHash(Head(items)) IN
         IF hs.err THEN PanicBool(h)
         ELSE IF hs.h \notin DOMAIN h[r].m THEN Ret(h, FALSE)
         ELSE setAny_HasLoop(h, r, Tail(items))

setAny_Has(h, r, items) ==
    IF Len(items) = 0 THEN Ret(h, FALSE) ELSE setAny_HasLoop(h, r, items)

Has(h, r, items) ==
    CASE h[r].kind = "nots" -> set_Has(h, r, items)
      [] h[r].kind = "ts" -> setm_Has(h, r, items)
      [] h[r].kind = "any" -> setAny_Has(h, r, items)

\* ------------------------------------------------------------- Size, Clear
\* len(s.m) for set and setm, len(s) for setAny
Size(h, r) == MapLen(h[r].m)

\* return s.Size() == 0, for set and setAny, and for setm by embedding
IsEmpty(h, r) == Size(h, r) = 0

\* s.m = make(map[T]struct{})
set_Clear(h, r) == Ret([h EXCEPT ![r].m = EmptyMap], ZeroT)
setm_Clear(h, r) == Ret([h EXCEPT ![r].m = EmptyMap], ZeroT)
\* s = make(map[uint64]T) assigns the method's own copy of the receiver
setAny_Clear(h, r) == Ret(h, ZeroT)

Clear(h, r) ==
    CASE h[r].kind = "nots" -> set_Clear(h, r)
      [] h[r].kind = "ts" -> setm_Clear(h, r)
      [] h[r].kind = "any" -> setAny_Clear(h, r)

\* ------------------------------------------------------------- Each, List
\* The items of a set: the keys of set.m, the values of setAny.
Items(obj) ==
    IF obj.kind = "any" THEN {obj.m[k] : k \in DOMAIN obj.m} ELSE DOMAIN obj.m

\* The sequences in which Each hands the items to its visitor, and the
\* slices List may return: one per iteration order of the map.
Visits(obj) ==
    IF obj.kind = "any"
    THEN {[i \in 1..Len(o) |-> obj.m[o[i]]] : o \in Orders(DOMAIN obj.m)}
    ELSE Orders(DOMAIN obj.m)

List(h, r) == Visits(h[r])

\* ------------------------------------------------------------- Copy
\* for item := range s.m { u.Add(item) }, along one visit of the source
RECURSIVE AddEach(_, _, _)
AddEach(h, u, visit) ==
    IF visit = <<>> THEN Ret(h, u)
    ELSE LET o == Add(h, u, <<Head(visit)>>) IN
         IF o.fault # "none" THEN o ELSE AddEach(o.h, u, Tail(visit))

\* A Copy that hands back the receiver itself instead of a new set.
set_CopyShared(h, r) == {Ret(h, r)}

\* u := newNonTS[T](); for item := range s.m { u.Add(item) }; return u
set_Copy(h, r) ==
    LET a == Alloc(h, newNonTS) IN {AddEach(a.h, a.val, v) : v \in Visits(h[r])}

\* u := newTS[T](); for item := range s.m { u.Add(item) }; return u
setm_Copy(h, r) ==
    LET a == Alloc(h, newTS) IN {AddEach(a.h, a.val, v) : v \in Visits(h[r])}

\* u := make(setAny[T]); for h, item := range s { u[h] = item }; return u
setAny_Copy(h, r) ==
    {Alloc(h, [kind |-> "any", m |-> [k \in DOMAIN h[r].m |-> h[r].m[k]]])}

Copy(h, r) ==
    CASE h[r].kind = "nots" -> set_Copy(h, r)
      [] h[r].kind = "ts" -> setm_Copy(h, r)
      [] h[r].kind = "any" -> setAny_Copy(h, r)

\* ------------------------------------------------------------- Merge
\* t.Each(func(item T) bool { s.m[item] = null{}; return true })
RECURSIVE set_MergeEach(_, _, _)
set_MergeEach(h, r, visit) ==
    IF visit = <<>> THEN Ret(h, r)
    ELSE set_MergeEach([h EXCEPT ![r].m = MapPut(@, Head(visit), null)], r, Tail(visit))

set_Merge(h, r, t) == {set_MergeEach(h, r, v) : v \in Visits(h[t])}

\* s.Lock(); t.Each(...): when t is s itself, t.Each asks for the read lock
\* of the mutex this call holds for writing, and waits forever.
setm_Merge(h, r, t) ==
    IF t = r THEN {Deadlock(h)}
    ELSE {set_MergeEach(h, r, v) : v \in Visits(h[t])}

\* t.Each(func(item T) bool { s[mushHash(item)] = item; return true })
RECURSIVE setAny_MergeEach(_, _, _)
setAny_MergeEach(h, r, visit) ==
    IF visit = <<>> THEN Ret(h, r)
    ELSE LET hs == mushHash(Head(visit)) IN
         IF hs.err THEN Panic(h)
         ELSE setAny_MergeEach([h EXCEPT ![r].m = MapPut(@, hs.h, Head(visit))], r, Tail(visit))

setAny_Merge(h, r, t) == {setAny_MergeEach(h, r, v) : v \in Visits(h[t])}

Merge(h, r, t) ==
    CASE h[r].kind = "nots" -> set_Merge(h, r, t)
      [] h[r].kind = "ts" -> setm_Merge(h, r, t)
      [] h[r].kind = "any" -> setAny_Merge(h, r, t)

\* ------------------------------------------------------------- Separate
\* return s.Remove(t.List()...): setm has no Separate of its own, so on a
\* threadsafe set this is set.Separate of the embedded set, and s.Remove
\* is set.Remove.
set_Separate(h, r, t) == {set_Remove(h, r, l) : l \in List(h, t)}

setAny_Separate(h, r, t) == {setAny_Remove(h, r, l) : l \in List(h, t)}

Separate(h, r, t) ==
    CASE h[r].kind = "nots" -> set_Separate(h, r, t)
      [] h[r].kind = "ts" -> set_Separate(h, r, t)
      [] h[r].kind = "any" -> setAny_Separate(h, r, t)

\* ------------------------------------------------------------- IsEqual
\* equal := true
\* t.Each(func(item T) bool { _, equal = s.m[item]; return equal })
RECURSIVE set_EqualEach(_, _, _)
set_EqualEach(h, r, visit) ==
    IF visit = <<>> THEN Ret(h, TRUE)
    ELSE IF Head(visit) \notin DOMAIN h[r].m THEN Ret(h, FALSE)
    ELSE set_EqualEach(h, r, Tail(visit))

set_IsEqual(h, r, t) ==
    IF MapLen(h[r].m) # Size(h, t) THEN {Ret(h, FALSE)}
    ELSE {set_EqualEach(h, r, v) : v \in Visits(h[t])}

\* The same under s.RLock() (and t's read lock, taken again by t.Size and
\* t.Each): with no writer waiting, read locks nest.
setm_IsEqual(h, r, t) ==
    IF MapLen(h[r].m) # Size(h, t) THEN {Ret(h, FALSE)}
    ELSE {set_EqualEach(h, r, v) : v \in Visits(h[t])}

\* return t.Each(func(item T) bool { _, ok := s[mushHash(item)]; return ok })
RECURSIVE setAny_EqualEach(_, _, _)
setAny_EqualEach(h, r, visit) ==
    IF visit = <<>> THEN Ret(h, TRUE)
    ELSE LET hs == mushHash(Head(visit)) IN
         IF hs.err THEN PanicBool(h)
         ELSE IF hs.h \notin DOMAIN h[r].m THEN Ret(h, FALSE)
         ELSE setAny_EqualEach(h, r, Tail(visit))

setAny_IsEqual(h, r, t) ==
    IF MapLen(h[r].m) # Size(h, t) THEN {Ret(h, FALSE)}
    ELSE {setAny_EqualEach(h, r, v) : v \in Visits(h[t])}

IsEqual(h, r, t) ==
    CASE h[r].kind = "nots" -> set_IsEqual(h, r, t)
      [] h[r].kind = "ts" -> setm_IsEqual(h, r, t)
      [] h[r].kind = "any" -> setAny_IsEqual(h, r, t)

\* ------------------------------------------------------------- IsSubset
\* t.Each(func(item T) bool { _, ok := s.m[item]; return ok }), along one
\* visit of t: Each stops with false at the first item the visitor refuses.
RECURSIVE set_SubsetEach(_, _, _)
set_SubsetEach(h, r, visit) ==
    IF visit = <<>> THEN Ret(h, TRUE)
    ELSE IF Head(visit) \notin DOMAIN h[r].m THEN Ret(h, FALSE)
    ELSE set_SubsetEach(h, r, Tail(visit))

\* An IsSubset that asks whether the receiver's items are in the argument.
set_IsSubsetOf(h, r, t) == {set_SubsetEach(h, t, v) : v \in Visits(h[r])}

set_IsSubset(h, r, t) == {set_SubsetEach(h, r, v) : v \in Visits(h[t])}

\* The same under s.RLock(); with no writer waiting, t.Each may take the
\* read lock of s again when t is s.
setm_IsSubset(h, r, t) == {set_SubsetEach(h, r, v) : v \in Visits(h[t])}

\* t.Each(func(item T) bool { _, ok := s[mushHash(item)]; return ok })
RECURSIVE setAny_SubsetEach(_, _, _)
setAny_SubsetEach(h, r, visit) ==
    IF visit = <<>> THEN Ret(h, TRUE)
    ELSE LET hs == mushHash(Head(visit)) IN
         IF hs.err THEN PanicBool(h)
         ELSE IF hs.h \notin DOMAIN h[r].m THEN Ret(h, FALSE)
         ELSE setAny_SubsetEach(h, r, Tail(visit))

setAny_IsSubset(h, r, t) == {setAny_SubsetEach(h, r, v) : v \in Visits(h[t])}

IsSubset(h, r, t) ==
    CASE h[r].kind = "nots" -> set_IsSubset(h, r, t)
      [] h[r].kind = "ts" -> setm_IsSubset(h, r, t)
      [] h[r].kind = "any" -> setAny_IsSubset(h, r, t)

\* ------------------------------------------------------------- IsSuperset
\* An IsSuperset that asks the receiver's own IsSubset.
IsSubsetAgain(h, r, t) == IsSubset(h, r, t)

\* return t.IsSubset(s), for set and for setAny.  setm has no IsSuperset of
\* its own: on a threadsafe set this is set.IsSuperset of the embedded set,
\* which hands t the same map.
IsSuperset(h, r, t) == IsSubset(h, t, r)

\* ------------------------------------------------------------- Union
\* t.Each(func(item T) bool { u.Add(item); return true })
EachAdd(h, u, t) == {AddEach(h, u, v) : v \in Visits(h[t])}

\* The same for set2 and then every set of sets, in turn.
RECURSIVE UnionRest(_, _, _)
UnionRest(h, u, sets) ==
    IF sets = <<>> THEN {Ret(h, u)}
    ELSE UNION {IF o.fault # "none" THEN {o} ELSE UnionRest(o.h, u, Tail(sets)) :
                  o \in EachAdd(h, u, Head(sets))}

\* u := set1.Copy(); set2.Each(u.Add); for _, set := range sets { set.Each(u.Add) }
Union(h, set1, set2, sets) ==
    UNION {IF c.fault # "none" THEN {c} ELSE UnionRest(c.h, c.val, <<set2>> \o sets) :
             c \in Copy(h, set1)}

\* ------------------------------------------------------------- Difference
\* s.Separate(set2); for _, set := range sets { s.Separate(set) }
RECURSIVE SeparateAll(_, _, _)
SeparateAll(h, s, sets) ==
    IF sets = <<>> THEN {Ret(h, s)}
    ELSE UNION {IF o.fault # "none" THEN {o} ELSE SeparateAll(o.h, s, Tail(sets)) :
                  o \in Separate(h, s, Head(sets))}

\* A Difference that separates set2 and sets from set1 itself.
DifferenceInPlace(h, set1, set2, sets) == SeparateAll(h, set1, <<set2>> \o sets)

\* s := set1.Copy(), then the Separate calls
Difference(h, set1, set2, sets) ==
    UNION {IF c.fault # "none" THEN {c} ELSE SeparateAll(c.h, c.val, <<set2>> \o sets) :
             c \in Copy(h, set1)}

\* ------------------------------------------------------------- Intersection
\* if !set.Has(item) { result.Remove(item) }
RemoveIfAbsent(h, result, set, item) ==
    LET q == Has(h, set, <<item>>) IN
    IF q.fault # "none" THEN q
    ELSE IF ~q.val THEN Remove(h, result, <<item>>)
    ELSE Ret(h, result)

\* for _, set := range sets { if !set.Has(item) { result.Remove(item) } }
RECURSIVE RemoveIfAbsentAll(_, _, _, _)
RemoveIfAbsentAll(h, result, sets, item) ==
    IF sets = <<>> THEN Ret(h, result)
    ELSE LET o == RemoveIfAbsent(h, result, Head(sets), item) IN
         IF o.fault # "none" THEN o
         ELSE RemoveIfAbsentAll(o.h, result, Tail(sets), item)

\* The visitor Intersection hands to all.Each, for one item:
\* if !set1.Has(item) || !set2.Has(item) { result.Remove(item) }, then the
\* loop over sets.
IntersectionVisit(h, result, set1, set2, sets, item) ==
    LET q == Has(h, set1, <<item>>)
        o == IF q.fault # "none" THEN q
             ELSE IF ~q.val THEN Remove(h, result, <<item>>)
             ELSE RemoveIfAbsent(h, result, set2, item)
    IN  IF o.fault # "none" THEN o
        ELSE RemoveIfAbsentAll(o.h, result, sets, item)

\* all.Each(visitor), along one visit of all
RECURSIVE IntersectionEach(_, _, _, _, _, _)
IntersectionEach(h, result, set1, set2, sets, visit) ==
    IF visit = <<>> THEN Ret(h, result)
    ELSE LET o == IntersectionVisit(h, result, set1, set2, sets, Head(visit)) IN
         IF o.fault # "none" THEN o
         ELSE IntersectionEach(o.h, result, set1, set2, sets, Tail(visit))

\* all := Union(...); result := Union(...); all.Each(visitor); return result
Intersection(h, set1, set2, sets) ==
    UNION {IF all.fault # "none" THEN {all}
           ELSE UNION {IF result.fault # "none" THEN {result}
                       ELSE {IntersectionEach(result.h, result.val, set1, set2, sets, v) :
                               v \in Visits(result.h[all.val])} :
                         result \in Union(all.h, set1, set2, sets)} :
             all \in Union(h, set1, set2, sets)}

\* ------------------------------------------------------------- SymmetricDifference
\* u := Difference(s, t); v := Difference(t, s); return Union(u, v)
SymmetricDifference(h, s, t) ==
    UNION {IF u.fault # "none" THEN {u}
           ELSE UNION {IF v.fault # "none" THEN {v}
                       ELSE Union(v.h, u.val, v.val, <<>>) :
                         v \in Difference(u.h, t, s, <<>>)} :
             u \in Difference(h, s, t, <<>>)}

\* ------------------------------------------------------------- state
VARIABLES
    heap,    \* the set objects: a sequence of [kind, m]
    ref,     \* the object each of the program's variables s, t refers to
    ret,     \* the last call: what was called, on what, and what it returned
    fault,   \* "none" while the program runs; "panic" or "deadlock" after
    copied,  \* whether t holds the result of s.Copy()
    workers, \* the goroutines calling Add and Remove: where each one is
    main,    \* the goroutine calling an algebra function: where it is
    locks    \* the RWMutex of each shared threadsafe set

vars == <<heap, ref, ret, fault, copied, workers, main, locks>>

\* ------------------------------------------------------------- goroutines
Workers == 1..NWorkers
\* The goroutine that made the sets and combines them.
Main == 0
Threads == {Main} \cup Workers
\* No goroutine: the writer of a mutex nobody holds.
NoThread == -1

\* A goroutine that is in no call.
IdleWorker ==
    [op |-> "idle", pc |-> "idle", recv |-> "s", arg |-> "s", item |-> ZeroT, todo |-> {},
     stage |-> 0, list |-> <<>>, ok |-> FALSE]
IdleMain ==
    [op |-> "idle", pc |-> "idle", recv |-> "s", arg |-> "s", u |-> 0, all |-> 0,
     snaps |-> [x \in Vars |-> {}], overlap |-> FALSE]

\* sync.RWMutex, embedded in setm.  Lock announces the writer, which holds
\* back new readers, and then waits for the mutex to be free.
Unlocked == [writer |-> NoThread, readers |-> [t \in Threads |-> 0], waiting |-> {}]
LockAsk(l, t) == [l EXCEPT !.waiting = @ \cup {t}]
CanLock(l) == l.writer = NoThread /\ \A t \in Threads : l.readers[t] = 0
LockTake(l, t) == [l EXCEPT !.writer = t, !.waiting = @ \ {t}]
Unlock(l) == [l EXCEPT !.writer = NoThread]
CanRLock(l) == l.writer = NoThread /\ l.waiting = {}
RLock(l, t) == [l EXCEPT !.readers[t] = @ + 1]
RUnlock(l, t) == [l EXCEPT !.readers[t] = @ - 1]

\* One goroutine runs the program: no other is started, no mutex is held.
Alone ==
    /\ workers = [w \in Workers |-> IdleWorker]
    /\ main = IdleMain
    /\ locks = [i \in 1..2 |-> Unlocked]

\* The object variable x refers to.
Cur(x) == heap[ref[x]]
\* The other variable.
Other(x) == IF x = "s" THEN "t" ELSE "s"

\* The variadic argument lists a call is tried with.
ItemLists == UNION {[1..n -> Elem] : n \in 0..MaxItems}

\* The heap with only the objects its variables can reach, s first: every
\* other object of h is garbage once the call has returned.
Reach(h, rf) ==
    IF rf["s"] = rf["t"]
    THEN [heap |-> <<h[rf["s"]]>>, ref |-> [x \in Vars |-> 1]]
    ELSE [heap |-> <<h[rf["s"]], h[rf["t"]]>>,
          ref |-> [x \in Vars |-> IF x = "s" THEN 1 ELSE 2]]

\* The same, keeping the object r a call returned while the caller holds it:
\* res is its reference in the new heap.
Keep(h, rf, r) ==
    LET base == Reach(h, rf) IN
    IF r \in {rf[x] : x \in Vars}
    THEN [heap |-> base.heap, ref |-> base.ref,
          res |-> base.ref[CHOOSE x \in Vars : rf[x] = r]]
    ELSE [heap |-> Append(base.heap, h[r]), ref |-> base.ref,
          res |-> Len(base.heap) + 1]

\* val is the set or the item a call returned, ok the bool it returned.
Call(op, recv, items, arg, val) ==
    [op |-> op, recv |-> recv, items |-> items, arg |-> arg, val |-> val, ok |-> FALSE]

\* The state after a call whose outcome is o, with the variables bound as rf.
Return(o, rf, call) ==
    /\ heap' = Reach(o.h, rf).heap
    /\ ref' = Reach(o.h, rf).ref
    /\ fault' = o.fault
    /\ ret' = call
    /\ UNCHANGED <<workers, main, locks>>

\* The program is between two calls: it runs, and has taken the last result.
Ready == fault = "none" /\ ret.op = "idle"

\* var s, t Set[T], each made by one of the factories.
Init ==
    /\ heap \in {<<New(k1), New(k2)>> : k1 \in Variants, k2 \in Variants}
    /\ ref = [x \in Vars |-> IF x = "s" THEN 1 ELSE 2]
    /\ ret = Call("idle", "s", <<>>, "s", ZeroT)
    /\ fault = "none"
    /\ copied = FALSE
    /\ Alone

\* x.Add(items...)
DoAdd ==
    \E x \in Vars, items \in ItemLists :
        /\ Ready
        /\ Return(Add(heap, ref[x], items), ref, Call("Add", x, items, x, ZeroT))
        /\ UNCHANGED copied

\* x.Remove(items...)
DoRemove ==
    \E x \in Vars, items \in ItemLists :
        /\ Ready
        /\ Return(Remove(heap, ref[x], items), ref, Call("Remove", x, items, x, ZeroT))
        /\ UNCHANGED copied

\* item, found := x.Pop()
DoPop ==
    \E x \in Vars :
        /\ Ready
        /\ \E o \in Pop(heap, ref[x]) :
               Return(o, ref, [Call("Pop", x, <<>>, x, o.val.item) EXCEPT !.ok = o.val.found])
        /\ UNCHANGED copied

\* x.Clear()
DoClear ==
    \E x \in Vars :
        /\ Ready
        /\ Return(Clear(heap, ref[x]), ref, Call("Clear", x, <<>>, x, ZeroT))
        /\ UNCHANGED copied

\* t = s.Copy()
DoCopy ==
    /\ Ready
    /\ \E o \in Copy(heap, ref["s"]) :
           Return(o, [ref EXCEPT !["t"] = o.val], Call("Copy", "s", <<>>, "t", ZeroT))
    /\ copied' = TRUE

\* x.Merge(y)
DoMerge ==
    \E x \in Vars, y \in Vars :
        /\ Ready
        /\ \E o \in Merge(heap, ref[x], ref[y]) :
               Return(o, ref, Call("Merge", x, <<>>, y, ZeroT))
        /\ UNCHANGED copied

\* x.Separate(y)
DoSeparate ==
    \E x \in Vars, y \in Vars :
        /\ Ready
        /\ \E o \in Separate(heap, ref[x], ref[y]) :
               Return(o, ref, Call("Separate", x, <<>>, y, ZeroT))
        /\ UNCHANGED copied

\* The caller takes the result of the last call and goes on.
Continue ==
    /\ fault = "none"
    /\ ret.op # "idle"
    /\ ret' = Call("idle", "s", <<>>, "s", ZeroT)
    /\ heap' = Reach(heap, ref).heap
    /\ ref' = Reach(heap, ref).ref
    /\ UNCHANGED <<fault, copied, workers, main, locks>>

Next ==
    \/ Continue
    \/ DoAdd
    \/ DoRemove
    \/ DoPop
    \/ DoClear
    \/ DoCopy
    \/ DoMerge
    \/ DoSeparate

Spec == Init /\ [][Next]_vars

\* ------------------------------------------------------------- algebra calls
\* The variadic argument lists sets ...Set[T] a call is tried with.
SetLists == UNION {[1..n -> Vars] : n \in 0..MaxMore}

\* The references held by a list of variables.
Refs(more) == [i \in 1..Len(more) |-> ref[more[i]]]

\* The state after an algebra call whose outcome is o: the returned set
\* stays on the heap, at ret.val, until the caller goes on.
ReturnSet(o, call) ==
    /\ heap' = Keep(o.h, ref, o.val).heap
    /\ ref' = Keep(o.h, ref, o.val).ref
    /\ fault' = o.fault
    /\ ret' = [call EXCEPT !.val = IF o.fault = "none" THEN Keep(o.h, ref, o.val).res ELSE ZeroT]
    /\ UNCHANGED <<copied, workers, main, locks>>

\* Union(x, y, more...)
DoUnion ==
    \E x \in Vars, y \in Vars, more \in SetLists :
        /\ Ready
        /\ \E o \in Union(heap, ref[x], ref[y], Refs(more)) :
               ReturnSet(o, Call("Union", x, more, y, ZeroT))

\* Difference(x, y, more...)
DoDifference ==
    \E x \in Vars, y \in Vars, more \in SetLists :
        /\ Ready
        /\ \E o \in Difference(heap, ref[x], ref[y], Refs(more)) :
               ReturnSet(o, Call("Difference", x, more, y, ZeroT))

\* Intersection(x, y, more...)
DoIntersection ==
    \E x \in Vars, y \in Vars, more \in SetLists :
        /\ Ready
        /\ \E o \in Intersection(heap, ref[x], ref[y], Refs(more)) :
               ReturnSet(o, Call("Intersection", x, more, y, ZeroT))

\* SymmetricDifference(x, y)
DoSymmetricDifference ==
    \E x \in Vars, y \in Vars :
        /\ Ready
        /\ \E o \in SymmetricDifference(heap, ref[x], ref[y]) :
               ReturnSet(o, Call("SymmetricDifference", x, <<>>, y, ZeroT))

\* The sets are filled with Add, Remove and Merge, and then combined.
NextAlg ==
    \/ Continue
    \/ DoAdd
    \/ DoRemove
    \/ DoMerge
    \/ DoUnion
    \/ DoDifference
    \/ DoIntersection
    \/ DoSymmetricDifference

SpecAlg == Init /\ [][NextAlg]_vars

\* ------------------------------------------------------------- queries
\* The variadic argument lists Has is tried with.
HasLists == UNION {[1..n -> Elem] : n \in 0..MaxHas}

\* The state after a call that returned the bool of outcome o.
ReturnBool(o, call) ==
    Return(o, ref, [call EXCEPT !.ok = (o.fault = "none" /\ o.val)])

\* x.Has(items...)
DoHas ==
    \E x \in Vars, items \in HasLists :
        /\ Ready
        /\ ReturnBool(Has(heap, ref[x], items), Call("Has", x, items, x, ZeroT))
        /\ UNCHANGED copied

\* x.IsSubset(y)
DoIsSubset ==
    \E x \in Vars, y \in Vars :
        /\ Ready
        /\ \E o \in IsSubset(heap, ref[x], ref[y]) :
               ReturnBool(o, Call("IsSubset", x, <<>>, y, ZeroT))
        /\ UNCHANGED copied

\* x.IsSuperset(y)
DoIsSuperset ==
    \E x \in Vars, y \in Vars :
        /\ Ready
        /\ \E o \in IsSuperset(heap, ref[x], ref[y]) :
               ReturnBool(o, Call("IsSuperset", x, <<>>, y, ZeroT))
        /\ UNCHANGED copied

\* The sets are filled with Add, Remove and Merge, and then asked.
NextQuery ==
    \/ Continue
    \/ DoAdd
    \/ DoRemove
    \/ DoMerge
    \/ DoHas
    \/ DoIsSubset
    \/ DoIsSuperset

SpecQuery == Init /\ [][NextQuery]_vars

\* ------------------------------------------------------------- failing hashes
\* The argument lists tried when an element may fail to hash.
HashItemLists == UNION {[1..n -> Elem \cup {BadElem}] : n \in 0..MaxItems}

\* x.Add(items...), x.Remove(items...) and x.Has(items...) with such items
HAdd ==
    \E x \in Vars, items \in HashItemLists :
        /\ Ready
        /\ Return(Add(heap, ref[x], items), ref, Call("Add", x, items, x, ZeroT))
        /\ UNCHANGED copied

HRemove ==
    \E x \in Vars, items \in HashItemLists :
        /\ Ready
        /\ Return(Remove(heap, ref[x], items), ref, Call("Remove", x, items, x, ZeroT))
        /\ UNCHANGED copied

HHas ==
    \E x \in Vars, items \in HashItemLists :
        /\ Ready
        /\ ReturnBool(Has(heap, ref[x], items), Call("Has", x, items, x, ZeroT))
        /\ UNCHANGED copied

\* x.IsEqual(y)
DoIsEqual ==
    \E x \in Vars, y \in Vars :
        /\ Ready
        /\ \E o \in IsEqual(heap, ref[x], ref[y]) :
               ReturnBool(o, Call("IsEqual", x, <<>>, y, ZeroT))
        /\ UNCHANGED copied

NextHash ==
    \/ Continue
    \/ HAdd
    \/ HRemove
    \/ HHas
    \/ DoMerge
    \/ DoIsEqual
    \/ DoIsSubset

SpecHash == Init /\ [][NextHash]_vars

\* ------------------------------------------------------------- concurrent Add
\* The elements worker w adds: the ranges of two workers are disjoint.
Range(w) == ((w - 1) * PerWorker + 1)..(w * PerWorker)

\* s := New[T](), and every worker is about to add its range to s.
InitAdd ==
    /\ heap = <<newTS, newTS>>
    /\ ref = [x \in Vars |-> IF x = "s" THEN 1 ELSE 2]
    /\ ret = Call("idle", "s", <<>>, "s", ZeroT)
    /\ fault = "none"
    /\ copied = FALSE
    /\ workers = [w \in Workers |-> [IdleWorker EXCEPT !.todo = Range(w)]]
    /\ main = IdleMain
    /\ locks = [i \in 1..2 |-> Unlocked]

\* Worker w enters x.Add(e) or x.Remove(e): the list is not empty, so the
\* call goes on to s.Lock().
Enter(w, op, x, e) ==
    /\ workers[w].pc = "idle"
    /\ workers' = [workers EXCEPT ![w].op = op, ![w].pc = "lock",
                                  ![w].recv = x, ![w].item = e]
    /\ locks' = [locks EXCEPT ![ref[x]] = LockAsk(@, w)]
    /\ UNCHANGED <<heap, ref, ret, fault, copied, main>>

\* go s.Add(e), for an e of the worker's range it has not added yet
WAdd(w) == \E e \in workers[w].todo : Enter(w, "Add", "s", e)

\* s.Lock() returns.
WLock(w) ==
    /\ workers[w].pc = "lock"
    /\ CanLock(locks[ref[workers[w].recv]])
    /\ locks' = [locks EXCEPT ![ref[workers[w].recv]] = LockTake(@, w)]
    /\ workers' = [workers EXCEPT ![w].pc = "locked"]
    /\ UNCHANGED <<heap, ref, ret, fault, copied, main>>

\* The rest of setm.Add or setm.Remove: the call on the embedded set, the
\* deferred s.Unlock() and the return.  An algebra call that is under way
\* has now run beside this call, and its input has the contents left here.
WBody(w) ==
    LET me == workers[w]
        r == ref[me.recv]
        o == IF me.op = "Add" THEN setm_Add(heap, r, <<me.item>>)
             ELSE setm_Remove(heap, r, <<me.item>>)
    IN  /\ me.pc = "locked"
        /\ heap' = o.h
        /\ locks' = [locks EXCEPT ![r] = Unlock(@)]
        /\ workers' = [workers EXCEPT ![w] =
                          [IdleWorker EXCEPT !.todo = me.todo \ {me.item}]]
        /\ main' = IF main.pc \in {"idle", "done"} THEN main
                   ELSE [main EXCEPT !.overlap = TRUE,
                                     !.snaps[me.recv] = @ \cup {Items(o.h[r])}]
        /\ UNCHANGED <<ref, ret, fault, copied>>

NextAdd ==
    \E w \in Workers :
        \/ WAdd(w)
        \/ WLock(w)
        \/ WBody(w)

SpecAdd == InitAdd /\ [][NextAdd]_vars

\* ------------------------------------------------------------- concurrent Merge
\* A threadsafe set holding 1..k, as s.Merge of a set holding them leaves it.
Filled(k) == [kind |-> "ts", m |-> [e \in 1..k |-> null]]

\* Two threadsafe sets; every worker has PerWorker calls of Merge to make,
\* numbered by its range.
InitMerge ==
    /\ heap \in {<<Filled(a), Filled(b)>> : a \in 0..MaxShared, b \in 0..MaxShared}
    /\ ref = [x \in Vars |-> IF x = "s" THEN 1 ELSE 2]
    /\ ret = Call("idle", "s", <<>>, "s", ZeroT)
    /\ fault = "none"
    /\ copied = FALSE
    /\ workers = [w \in Workers |-> [IdleWorker EXCEPT !.todo = Range(w)]]
    /\ main = IdleMain
    /\ locks = [i \in 1..2 |-> Unlocked]

\* go x.Merge(y): the call goes on to s.Lock().
GMerge(w) ==
    \E x \in Vars, y \in Vars, e \in workers[w].todo :
        /\ workers[w].pc = "idle"
        /\ workers' = [workers EXCEPT ![w].op = "Merge", ![w].pc = "lock",
                                      ![w].recv = x, ![w].arg = y, ![w].item = e]
        /\ locks' = [locks EXCEPT ![ref[x]] = LockAsk(@, w)]
        /\ UNCHANGED <<heap, ref, ret, fault, copied, main>>

\* t.Each(...) under the write lock of s: setm.Each takes t.RLock().
GEach(w) ==
    /\ workers[w].pc = "locked"
    /\ workers[w].op = "Merge"
    /\ CanRLock(locks[ref[workers[w].arg]])
    /\ locks' = [locks EXCEPT ![ref[workers[w].arg]] = RLock(@, w)]
    /\ workers' = [workers EXCEPT ![w].pc = "each"]
    /\ UNCHANGED <<heap, ref, ret, fault, copied, main>>

\* The visits of t.Each store the items of t in s.m; then the deferred
\* t.RUnlock() and s.Unlock(), and Merge returns s.
GBody(w) ==
    LET me == workers[w]
        r == ref[me.recv]
        t == ref[me.arg]
    IN  /\ me.pc = "each"
        /\ \E v \in Visits(heap[t]) : heap' = set_MergeEach(heap, r, v).h
        /\ locks' = [[locks EXCEPT ![t] = RUnlock(@, w)] EXCEPT ![r] = Unlock(@)]
        /\ workers' = [workers EXCEPT ![w] =
                          [IdleWorker EXCEPT !.todo = me.todo \ {me.item}]]
        /\ UNCHANGED <<ref, ret, fault, copied, main>>

NextMerge ==
    \E w \in Workers :
        \/ GMerge(w)
        \/ WLock(w)
        \/ GEach(w)
        \/ GBody(w)

SpecMerge == InitMerge /\ [][NextMerge]_vars

\* ------------------------------------------------------------- accesses of s.m
\* The methods a goroutine calls on a threadsafe set here: Clear and Size
\* are setm's own; IsEmpty, Separate and IsSuperset are promoted from the
\* embedded set; Copy is setm's own and takes no lock.
LockOps == {"Clear", "Size", "IsEmpty", "Copy", "Separate", "IsSuperset"}
TwoSetOps == {"Separate", "IsSuperset"}

\* A stretch of a call: the lock it takes first ("w" for Lock, "r" for
\* RLock, "none"), the set whose mutex that is, and the maps it then reads
\* or writes.
Stage(lock, on, acc) == [lock |-> lock, on |-> on, acc |-> acc]

Script(op) ==
    CASE op = "Clear" -> <<Stage("w", "recv", {<<"recv", "write">>})>>
      [] op = "Size" -> <<Stage("r", "recv", {<<"recv", "read">>})>>
      [] op = "IsEmpty" -> <<Stage("none", "recv", {<<"recv", "read">>})>>
      [] op = "Copy" -> <<Stage("none", "recv", {<<"recv", "read">>})>>
      \* s.Remove(t.List()...): t.List() under t.RLock(), then set.Remove
      [] op = "Separate" -> <<Stage("r", "arg", {<<"arg", "read">>}),
                              Stage("none", "recv", {<<"recv", "write">>})>>
      \* t.IsSubset(s) with s the embedded set: under t.RLock(), set.Each
      \* ranges over s.m and the visitor looks the items up in t.m
      [] op = "IsSuperset" -> <<Stage("r", "arg", {<<"arg", "read">>, <<"recv", "read">>})>>

\* The object a goroutine's call names as receiver or argument.
Obj(me, on) == ref[IF on = "recv" THEN me.recv ELSE me.arg]

\* The maps goroutine w is reading or writing, each with the kind of access.
Accessing(w) ==
    LET me == workers[w] IN
    IF me.pc # "in" THEN {}
    ELSE {<<Obj(me, a[1]), a[2]>> : a \in Script(me.op)[me.stage].acc}

\* Goroutine w holds the mutex of object o as the access needs it.
Holds(w, o, mode) ==
    \/ locks[o].writer = w
    \/ mode = "read" /\ locks[o].readers[w] > 0

\* Another goroutine is in a map w is in, and one of the two writes it.
Racing(w) ==
    \E v \in Workers \ {w} : \E a \in Accessing(w), b \in Accessing(v) :
        a[1] = b[1] /\ "write" \in {a[2], b[2]}

InitLock ==
    /\ heap \in {<<Filled(a), Filled(b)>> : a \in 0..MaxShared, b \in 0..MaxShared}
    /\ ref = [x \in Vars |-> IF x = "s" THEN 1 ELSE 2]
    /\ ret = Call("idle", "s", <<>>, "s", ZeroT)
    /\ fault = "none"
    /\ copied = FALSE
    /\ Alone

\* Goroutine w, whose call is me, comes to the stage me.stage with the
\* mutexes as in lk: it asks for the stage's lock, or goes on without one.
StartStage(w, me, lk) ==
    LET st == Script(me.op)[me.stage]
        o == Obj(me, st.on)
    IN  /\ workers' = [workers EXCEPT ![w] =
               [me EXCEPT !.pc = CASE st.lock = "w" -> "lock"
                                   [] st.lock = "r" -> "rlock"
                                   [] OTHER -> "in"]]
        /\ locks' = IF st.lock = "w" THEN [lk EXCEPT ![o] = LockAsk(@, w)] ELSE lk

\* go x.Clear(), x.Size(), x.IsEmpty(), x.Copy(), x.Separate(y) or
\* x.IsSuperset(y)
LCall(w) ==
    \E op \in LockOps, x \in Vars, y \in Vars :
        /\ fault = "none"
        /\ workers[w].pc = "idle"
        /\ op \notin TwoSetOps => y = x
        /\ StartStage(w, [IdleWorker EXCEPT !.op = op, !.recv = x, !.arg = y, !.stage = 1],
                      locks)
        /\ UNCHANGED <<heap, ref, ret, fault, copied, main>>

\* Lock() returns.
LLock(w) ==
    LET me == workers[w]
        o == Obj(me, Script(me.op)[me.stage].on)
    IN  /\ fault = "none"
        /\ me.pc = "lock"
        /\ CanLock(locks[o])
        /\ locks' = [locks EXCEPT ![o] = LockTake(@, w)]
        /\ workers' = [workers EXCEPT ![w].pc = "in"]
        /\ UNCHANGED <<heap, ref, ret, fault, copied, main>>

\* RLock() returns.
LRLock(w) ==
    LET me == workers[w]
        o == Obj(me, Script(me.op)[me.stage].on)
    IN  /\ fault = "none"
        /\ me.pc = "rlock"
        /\ CanRLock(locks[o])
        /\ locks' = [locks EXCEPT ![o] = RLock(@, w)]
        /\ workers' = [workers EXCEPT ![w].pc = "in"]
        /\ UNCHANGED <<heap, ref, ret, fault, copied, main>>

\* The reads and writes of the stage are done and its lock is released; the
\* call goes on to its next stage or returns.  When another goroutine was
\* in the same map and one of the two wrote it, the runtime may end the
\* program ("concurrent map read and map write").
LAccess(w) ==
    LET me == workers[w]
        st == Script(me.op)[me.stage]
        o == Obj(me, st.on)
        r == ref[me.recv]
        lk == CASE st.lock = "w" -> [locks EXCEPT ![o] = Unlock(@)]
                [] st.lock = "r" -> [locks EXCEPT ![o] = RUnlock(@, w)]
                [] OTHER -> locks
    IN  /\ fault = "none"
        /\ me.pc = "in"
        /\ heap' = CASE me.op = "Clear" -> setm_Clear(heap, r).h
                      [] me.op = "Separate" /\ me.stage = 2 -> set_Remove(heap, r, me.list).h
                      [] OTHER -> heap
        /\ \E l \in IF me.op = "Separate" /\ me.stage = 1 THEN List(heap, o) ELSE {me.list} :
               IF me.stage < Len(Script(me.op))
               THEN StartStage(w, [me EXCEPT !.stage = @ + 1, !.list = l], lk)
               ELSE workers' = [workers EXCEPT ![w] = IdleWorker] /\ locks' = lk
        /\ fault' \in IF Racing(w) THEN {"none", "panic"} ELSE {"none"}
        /\ UNCHANGED <<ref, ret, copied, main>>

NextLock ==
    \E w \in Workers :
        \/ LCall(w)
        \/ LLock(w)
        \/ LRLock(w)
        \/ LAccess(w)

SpecLock == InitLock /\ [][NextLock]_vars

\* ------------------------------------------------------------- setm, step by step
\* The methods of setm as the sequences of their lock calls and of what
\* they do to the maps in between.  An instruction names what is done and
\* the set it is done to: the receiver or the argument of the call.
I(do, on) == [do |-> do, on |-> on]

\* s.Lock() is two steps: the writer announces itself (LockAsk) and then
\* gets the mutex (Lock).
AddCode(op) ==
    <<I("LockAsk", "recv"), I("Lock", "recv"), I(op, "recv"), I("Unlock", "recv")>>

HasCode(op) == <<I("RLock", "recv"), I(op, "recv"), I("RUnlock", "recv")>>

\* A Pop that holds the write lock from the choice of the item to its
\* deletion.
PopCodeAtomic ==
    <<I("LockAsk", "recv"), I("Lock", "recv"), I("range", "recv"), I("delete", "recv"),
      I("Unlock", "recv"), I("return", "recv"), I("skip", "recv"), I("skip", "recv"),
      I("Unlock", "recv")>>

\* s.RLock(); for item := range s.m { s.RUnlock(); s.Lock(); delete(s.m,
\* item); s.Unlock(); return item, true }; s.RUnlock(); return t, false.
\* "range" goes on to the last instruction when the map is empty.
PopCode ==
    <<I("RLock", "recv"), I("range", "recv"), I("RUnlock", "recv"), I("LockAsk", "recv"),
      I("Lock", "recv"), I("delete", "recv"), I("Unlock", "recv"), I("return", "recv"),
      I("RUnlock", "recv")>>

\* An IsEqual whose early return leaves the read locks held.
IsEqualCodeLeaky ==
    <<I("RLock", "recv"), I("RLock", "arg"),
      I("RLock", "arg"), I("len", "arg"), I("RUnlock", "arg"), I("sameSize", "arg"),
      I("RLock", "arg"), I("each", "arg"), I("RUnlock", "arg"),
      I("RUnlock", "arg"), I("RUnlock", "recv"), I("return", "recv")>>

\* s.RLock(); conv.RLock(); t.Size() and t.Each(...) each take the read
\* lock of t again; "sameSize" goes on to the deferred unlocks when the
\* sizes differ.  The deferred calls run last: conv.RUnlock(), s.RUnlock().
IsEqualCode ==
    <<I("RLock", "recv"), I("RLock", "arg"),
      I("RLock", "arg"), I("len", "arg"), I("RUnlock", "arg"), I("sameSize", "arg"),
      I("RLock", "arg"), I("each", "arg"), I("RUnlock", "arg"),
      I("RUnlock", "arg"), I("RUnlock", "recv")>>

\* s.RLock(); t.Each(...) under t.RLock(); deferred s.RUnlock()
IsSubsetCode ==
    <<I("RLock", "recv"), I("RLock", "arg"), I("subset", "arg"), I("RUnlock", "arg"),
      I("RUnlock", "recv")>>

\* s.Lock(); t.Each(...) under t.RLock(); deferred s.Unlock()
MergeCode ==
    <<I("LockAsk", "recv"), I("Lock", "recv"), I("RLock", "arg"), I("merge", "arg"),
      I("RUnlock", "arg"), I("Unlock", "recv")>>

Code(op) ==
    CASE op \in {"Add", "Remove", "Clear"} -> AddCode(op)
      [] op \in {"Has", "Size", "Each", "List"} -> HasCode(op)
      [] op = "Pop" -> PopCode
      [] op = "IsEqual" -> IsEqualCode
      [] op = "IsSubset" -> IsSubsetCode
      [] op = "Merge" -> MergeCode

SyncOps ==
    {"Add", "Remove", "Pop", "Has", "Size", "Clear", "IsEqual", "IsSubset", "Each",
     "List", "Merge"}
ItemOps == {"Add", "Remove", "Has"}
ArgOps == {"IsEqual", "IsSubset", "Merge"}

\* The instruction goroutine w is at.
At(w) == Code(workers[w].op)[workers[w].stage]
Running(w, do) == workers[w].pc = "run" /\ At(w).do = do

\* Goroutine w, now me, goes on to instruction k, or has returned when the
\* code is at its end.
Goto(w, me, k) ==
    workers' = [workers EXCEPT ![w] =
                   IF k > Len(Code(me.op)) THEN [me EXCEPT !.pc = "ret", !.stage = k]
                   ELSE [me EXCEPT !.stage = k]]

\* go x.op(...), with the item e and the argument y where op takes them
Begin(w, op, x, y, e) ==
    /\ workers[w].pc = "idle"
    /\ workers' = [workers EXCEPT ![w].op = op, ![w].pc = "run", ![w].stage = 1,
                                  ![w].recv = x, ![w].arg = y, ![w].item = e]
    /\ UNCHANGED <<heap, ref, ret, fault, copied, main, locks>>

SCall(w) ==
    \E op \in SyncOps, x \in Vars, y \in Vars, e \in 0..MaxShared :
        /\ op \notin ArgOps => y = x
        /\ IF op \in ItemOps THEN e > 0 ELSE e = 0
        /\ Begin(w, op, x, y, e)

SLockAsk(w) ==
    /\ Running(w, "LockAsk")
    /\ locks' = [locks EXCEPT ![Obj(workers[w], At(w).on)] = LockAsk(@, w)]
    /\ Goto(w, workers[w], workers[w].stage + 1)
    /\ UNCHANGED <<heap, ref, ret, fault, copied, main>>

SLock(w) ==
    /\ Running(w, "Lock")
    /\ CanLock(locks[Obj(workers[w], At(w).on)])
    /\ locks' = [locks EXCEPT ![Obj(workers[w], At(w).on)] = LockTake(@, w)]
    /\ Goto(w, workers[w], workers[w].stage + 1)
    /\ UNCHANGED <<heap, ref, ret, fault, copied, main>>

SUnlock(w) ==
    /\ Running(w, "Unlock")
    /\ locks' = [locks EXCEPT ![Obj(workers[w], At(w).on)] = Unlock(@)]
    /\ Goto(w, workers[w], workers[w].stage + 1)
    /\ UNCHANGED <<heap, ref, ret, fault, copied, main>>

SRLock(w) ==
    /\ Running(w, "RLock")
    /\ CanRLock(locks[Obj(workers[w], At(w).on)])
    /\ locks' = [locks EXCEPT ![Obj(workers[w], At(w).on)] = RLock(@, w)]
    /\ Goto(w, workers[w], workers[w].stage + 1)
    /\ UNCHANGED <<heap, ref, ret, fault, copied, main>>

SRUnlock(w) ==
    /\ Running(w, "RUnlock")
    /\ locks' = [locks EXCEPT ![Obj(workers[w], At(w).on)] = RUnlock(@, w)]
    /\ Goto(w, workers[w], workers[w].stage + 1)
    /\ UNCHANGED <<heap, ref, ret, fault, copied, main>>

\* What the instructions between the lock calls do: the heap they leave,
\* the item and the bool the call has in hand, and the instruction next.
Step(h, item, ok, next) == [h |-> h, item |-> item, ok |-> ok, next |-> next]

Act(w) ==
    LET me == workers[w]
        do == At(w).do
        r == ref[me.recv]
        t == ref[me.arg]
        k == me.stage + 1
        last == Len(Code(me.op))
    IN  CASE do = "Add" -> {Step(setm_Add(heap, r, <<me.item>>).h, me.item, FALSE, k)}
          [] do = "Remove" -> {Step(setm_Remove(heap, r, <<me.item>>).h, me.item, FALSE, k)}
          [] do = "Clear" -> {Step(setm_Clear(heap, r).h, me.item, FALSE, k)}
          [] do = "Has" -> {Step(heap, me.item, set_Has(heap, r, <<me.item>>).val, k)}
          [] do \in {"Size", "Each", "List", "skip"} -> {Step(heap, me.item, FALSE, k)}
          [] do = "range" ->
                IF heap[r].m = EmptyMap THEN {Step(heap, ZeroT, FALSE, last)}
                ELSE {Step(heap, e, TRUE, k) : e \in DOMAIN heap[r].m}
          [] do = "delete" ->
                {Step([heap EXCEPT ![r].m = MapDelete(@, me.item)], me.item, me.ok, k)}
          [] do = "return" -> {Step(heap, me.item, me.ok, last + 1)}
          [] do = "len" -> {Step(heap, me.item, MapLen(heap[r].m) = MapLen(heap[t].m), k)}
          [] do = "sameSize" -> {Step(heap, me.item, me.ok, IF me.ok THEN k ELSE last - 1)}
          [] do = "each" ->
                {Step(heap, me.item, set_EqualEach(heap, r, v).val, k) : v \in Visits(heap[t])}
          [] do = "subset" ->
                {Step(heap, me.item, set_SubsetEach(heap, r, v).val, k) : v \in Visits(heap[t])}
          [] do = "merge" ->
                {Step(set_MergeEach(heap, r, v).h, me.item, FALSE, k) : v \in Visits(heap[t])}

SAct(w) ==
    /\ workers[w].pc = "run"
    /\ At(w).do \notin {"LockAsk", "Lock", "Unlock", "RLock", "RUnlock"}
    /\ \E a \in Act(w) :
           /\ heap' = a.h
           /\ Goto(w, [workers[w] EXCEPT !.item = a.item, !.ok = a.ok], a.next)
    /\ UNCHANGED <<ref, ret, fault, copied, main, locks>>

\* The caller has the results of its call and is free to call again.
SDone(w) ==
    /\ workers[w].pc = "ret"
    /\ workers' = [workers EXCEPT ![w] =
                      [IdleWorker EXCEPT !.todo = workers[w].todo \ {workers[w].item}]]
    /\ UNCHANGED <<heap, ref, ret, fault, copied, main, locks>>

SSteps(w) ==
    \/ SLockAsk(w)
    \/ SLock(w)
    \/ SUnlock(w)
    \/ SRLock(w)
    \/ SRUnlock(w)
    \/ SAct(w)
    \/ SDone(w)

\* The goroutines that only write: beside the one that calls every method,
\* they keep asking for the write locks.
Writers == Workers \ {1}

\* go x.Add(1)
XCall(w) ==
    \E x \in Vars :
        /\ Cur(x).kind = "ts"
        /\ Begin(w, "Add", x, x, 1)

NextSync ==
    \/ \E w \in Workers \ Writers : SCall(w)
    \/ \E w \in Writers : XCall(w)
    \/ \E w \in Workers : SSteps(w)

SpecSync == InitLock /\ [][NextSync]_vars

\* go x.IsEqual(y) or go x.Add(e), for a call e of the worker's range it
\* has not made yet
ECall(w) ==
    \E op \in {"IsEqual", "Add"}, x \in Vars, y \in Vars, e \in workers[w].todo :
        /\ op = "Add" => y = x
        /\ Begin(w, op, x, y, e)

NextEqual ==
    \E w \in Workers :
        \/ ECall(w)
        \/ SSteps(w)

SpecEqual == InitMerge /\ [][NextEqual]_vars

\* s holds 1..a and every goroutine is about to call s.Pop() or s.Remove(e).
InitPop ==
    /\ heap \in {<<Filled(a), newTS>> : a \in 0..MaxShared}
    /\ ref = [x \in Vars |-> IF x = "s" THEN 1 ELSE 2]
    /\ ret = Call("idle", "s", <<>>, "s", ZeroT)
    /\ fault = "none"
    /\ copied = FALSE
    /\ Alone

\* go s.Pop() or go s.Remove(e)
PCall(w) ==
    \E op \in {"Pop", "Remove"}, e \in 0..MaxShared :
        /\ IF op = "Remove" THEN e > 0 ELSE e = 0
        /\ Begin(w, op, "s", "s", e)

NextPop ==
    \E w \in Workers :
        \/ PCall(w)
        \/ SSteps(w)

SpecPop == InitPop /\ [][NextPop]_vars

\* ------------------------------------------------------------- concurrent algebra
\* Two threadsafe sets, shared by the workers and the main goroutine.
InitConc ==
    /\ heap \in {<<Filled(a), Filled(b)>> : a \in 0..MaxShared, b \in 0..MaxShared}
    /\ ref = [x \in Vars |-> IF x = "s" THEN 1 ELSE 2]
    /\ ret = Call("idle", "s", <<>>, "s", ZeroT)
    /\ fault = "none"
    /\ copied = FALSE
    /\ Alone

\* go x.Add(e) or go x.Remove(e)
WCall(w) ==
    \E op \in {"Add", "Remove"}, x \in Vars, e \in Range(w) : Enter(w, op, x, e)

\* The main goroutine calls Union(x, y), Difference(x, y) or
\* Intersection(x, y); the contents of the inputs at this instant are the
\* first the call may observe.
MCall ==
    \E op \in {"Union", "Difference", "Intersection"}, x \in Vars, y \in Vars :
        /\ main.pc = "idle"
        /\ main' = [IdleMain EXCEPT !.op = op, !.pc = "copy", !.recv = x, !.arg = y,
                                    !.snaps = [v \in Vars |-> {Items(Cur(v))}]]
        /\ UNCHANGED <<heap, ref, ret, fault, copied, workers, locks>>

\* u := set1.Copy(): setm.Copy takes no lock.
MCopy ==
    /\ main.pc = "copy"
    /\ \E c \in Copy(heap, ref[main.recv]) :
           /\ heap' = c.h
           /\ main' = [main EXCEPT !.pc = "rlock", !.u = c.val]
    /\ UNCHANGED <<ref, ret, fault, copied, workers, locks>>

\* set2.Each (Union) or set2.List (Separate, for Difference) takes the read
\* lock of set2.
MRLock ==
    /\ main.pc = "rlock"
    /\ CanRLock(locks[ref[main.arg]])
    /\ locks' = [locks EXCEPT ![ref[main.arg]] = RLock(@, Main)]
    /\ main' = [main EXCEPT !.pc = "body"]
    /\ UNCHANGED <<heap, ref, ret, fault, copied, workers>>

\* Under the read lock: Each adds the items of set2 to u, or List hands them
\* to u.Remove; then RUnlock.  Union and Difference return u; Intersection
\* has made all and makes result the same way, or has made result too.
MBody ==
    /\ main.pc = "body"
    /\ \E o \in IF main.op = "Difference" THEN Separate(heap, main.u, ref[main.arg])
                ELSE EachAdd(heap, main.u, ref[main.arg]) :
           heap' = o.h
    /\ locks' = [locks EXCEPT ![ref[main.arg]] = RUnlock(@, Main)]
    /\ main' = IF main.op # "Intersection" THEN [main EXCEPT !.pc = "done"]
               ELSE IF main.all = 0 THEN [main EXCEPT !.pc = "copy", !.all = main.u]
               ELSE [main EXCEPT !.pc = "each"]
    /\ UNCHANGED <<ref, ret, fault, copied, workers>>

\* all.Each(visitor), and Intersection returns result.  all is a setm that
\* Union filled with setm.Add.
MEach ==
    /\ main.pc = "each"
    /\ \E v \in Visits(heap[main.all]) :
           heap' = IntersectionEach(heap, main.u, ref[main.recv], ref[main.arg], <<>>, v).h
    /\ main' = [main EXCEPT !.pc = "done"]
    /\ UNCHANGED <<ref, ret, fault, copied, workers, locks>>

\* The caller has looked at the result and drops it.
MDrop ==
    /\ main.pc = "done"
    /\ heap' = SubSeq(heap, 1, 2)
    /\ main' = IdleMain
    /\ UNCHANGED <<ref, ret, fault, copied, workers, locks>>

NextConc ==
    \/ \E w \in Workers : WCall(w)
    \/ \E w \in Workers : WLock(w)
    \/ \E w \in Workers : WBody(w)
    \/ MCall
    \/ MCopy
    \/ MRLock
    \/ MBody
    \/ MEach
    \/ MDrop

SpecConc == InitConc /\ [][NextConc]_vars

\* ------------------------------------------------------------- claims
\* s.Has(e) for one element
Has1(h, r, e) == Has(h, r, <<e>>).val

\* Whether a and b are one member to a set of this kind: the hash-identity
\* set knows its members by their hash, the other two by the value.
SameMember(kind, a, b) ==
    IF kind = "any" THEN Hash(a).h = Hash(b).h ELSE a = b

\* C1: for every variant, after s.Add(e) returns, s.Has(e) is true and
\* s.Size() has grown by 1 if e was absent before and by 0 if it was present.
C1_AddThenHas ==
    [][(ret'.op = "Add" /\ Len(ret'.items) = 1) =>
        LET x == ret'.recv
            e == ret'.items[1]
        IN  /\ fault' = "none"
            /\ Has1(heap', ref'[x], e)
            /\ Size(heap', ref'[x]) =
                  Size(heap, ref[x]) + (IF Has1(heap, ref[x], e) THEN 0 ELSE 1)]_vars

\* C2: when the workers concurrently add their disjoint ranges to one
\* threadsafe set, then in every interleaving, once all the Add calls have
\* returned, s.Size() is the number of distinct elements added.
C2_NoLostUpdate ==
    (\A w \in Workers : workers[w].pc = "idle" /\ workers[w].todo = {}) =>
        Size(heap, ref["s"]) = Cardinality(UNION {Range(w) : w \in Workers})

\* What each algebra function is to make of the contents a and b.
Apply(op, a, b) ==
    CASE op = "Union" -> a \cup b
      [] op = "Difference" -> a \ b
      [] op = "Intersection" -> a \cap b

\* C3: an algebra function called on threadsafe inputs while other
\* goroutines Add and Remove on them returns the function of one snapshot
\* per input, each the exact contents of that input at an instant between the
\* start and the end of the call.
C3_SnapshotResult ==
    (main.pc = "done" /\ main.overlap) =>
        \E a \in main.snaps[main.recv], b \in main.snaps[main.arg] :
            Items(heap[main.u]) = Apply(main.op, a, b)

\* C4: for every variant, after s.Remove(e) returns, s.Has(e) is false, the
\* membership of every other element is unchanged, and removing an absent
\* element leaves the set unchanged and raises no error.
C4_RemoveThenAbsent ==
    [][(ret'.op = "Remove" /\ Len(ret'.items) = 1) =>
        LET x == ret'.recv
            e == ret'.items[1]
        IN  /\ fault' = "none"
            /\ ~Has1(heap', ref'[x], e)
            /\ \A f \in Elem :
                   ~SameMember(heap[ref[x]].kind, e, f) =>
                       Has1(heap', ref'[x], f) = Has1(heap, ref[x], f)
            /\ ~Has1(heap, ref[x], e) => heap'[ref'[x]] = heap[ref[x]]]_vars

\* C5: for every variant, s.Copy() returns a new set with exactly the
\* elements s holds at the time of the call (same size, same members), so
\* s.Copy().IsEqual(s) is true.
C5_CopyEqual ==
    [][ret'.op = "Copy" =>
        LET src == ret'.recv
            dst == ret'.arg
        IN  /\ Size(heap', ref'[dst]) = Size(heap, ref[src])
            /\ \A e \in Elem : Has1(heap', ref'[dst], e) = Has1(heap, ref[src], e)
            /\ \A o \in IsEqual(heap', ref'[dst], ref'[src]) :
                   o.fault = "none" /\ o.val]_vars

\* C6: copy independence.  Once t = s.Copy() has been made, every Add,
\* Remove, Pop or Clear on one of s and t leaves the contents of the other
\* unchanged; in particular t.Add(x) does not change s.Has(x).
C6_CopyIndependent ==
    [][(copied /\ ret'.op \in {"Add", "Remove", "Pop", "Clear"}) =>
        LET y == Other(ret'.recv)
        IN  /\ heap'[ref'[y]] = heap[ref[y]]
            /\ \A e \in Elem : Has1(heap', ref'[y], e) = Has1(heap, ref[y], e)]_vars

\* t = s.Copy() was made, then t.Add(x) put into t an x that s does not have.
C6_Witness ==
    /\ copied
    /\ ret.op = "Add"
    /\ ret.recv = "t"
    /\ Len(ret.items) = 1
    /\ Has1(heap, ref["t"], ret.items[1])
    /\ ~Has1(heap, ref["s"], ret.items[1])
    /\ Size(heap, ref["s"]) > 0

\* The sets an algebra call was given: set1, set2 and sets.
Inputs(call) ==
    {ref[call.recv], ref[call.arg]} \cup {ref[call.items[i]] : i \in 1..Len(call.items)}

\* The items of set2 and sets together.
OtherItems(call) ==
    Items(heap[ref[call.arg]]) \cup
        UNION {Items(heap[ref[call.items[i]]]) : i \in 1..Len(call.items)}

\* The items of all the sets a call was given.
AllItems(call) == UNION {Items(heap[i]) : i \in Inputs(call)}

\* Items with one hash are one member to a hash-identity set and two to the
\* others, so a call that mixes them has no one answer.  The algebra claims
\* are read on the calls that are free of this: no hash-identity set among
\* the inputs, or no two items of the inputs with one hash.
Unambiguous(call) ==
    \/ \A i \in Inputs(call) : heap[i].kind # "any"
    \/ \A a \in AllItems(call), b \in AllItems(call) : Hash(a).h = Hash(b).h => a = b

\* C7: Intersection(s1, s2, more...) returns a set containing exactly the
\* elements that are present in every one of the input sets s1, s2 and each
\* of more, for any number of extra sets and inputs of any variant.
C7_Intersection ==
    [][(ret'.op = "Intersection" /\ Unambiguous(ret')) =>
        /\ fault' = "none"
        /\ \A e \in Elem :
               e \in Items(heap'[ret'.val]) <=>
                   \A i \in Inputs(ret') : e \in Items(heap[i])]_vars

\* C8: Difference(s1, s2, more...) returns a set containing exactly the
\* elements of s1 that are in none of s2 and the sets of more; for
\* A = {1,2,3}, B = {2,3,4}: Difference(A,B) = {1} and Difference(B,A) = {4}.
C8_Difference ==
    [][(ret'.op = "Difference" /\ Unambiguous(ret')) =>
        /\ fault' = "none"
        /\ LET res == Items(heap'[ret'.val])
               A == Items(heap[ref[ret'.recv]])
               B == Items(heap[ref[ret'.arg]])
           IN  /\ \A e \in Elem :
                      e \in res <=> (e \in A /\ e \notin OtherItems(ret'))
               /\ (A = {1, 2, 3} /\ B = {2, 3, 4} /\ ret'.items = <<>>) => res = {1}
               /\ (A = {2, 3, 4} /\ B = {1, 2, 3} /\ ret'.items = <<>>) => res = {4}]_vars

\* C9: Union is commutative up to set equality: Union(A,B).IsEqual(Union(B,A))
\* is true for sets A and B of any variants, and Union(A,B) contains exactly
\* the elements that are in A or in B.
C9_UnionCommutes ==
    [][(ret'.op = "Union" /\ ret'.items = <<>> /\ Unambiguous(ret')) =>
        /\ fault' = "none"
        /\ \A e \in Elem :
               e \in Items(heap'[ret'.val]) <=>
                   (e \in Items(heap[ref[ret'.recv]]) \/ e \in Items(heap[ref[ret'.arg]]))
        /\ \A o \in Union(heap', ref'[ret'.arg], ref'[ret'.recv], <<>>) :
               /\ o.fault = "none"
               /\ \A q \in IsEqual(o.h, ret'.val, o.val) : q.fault = "none" /\ q.val]_vars

\* C10: SymmetricDifference(s, t) returns exactly the elements that are in
\* exactly one of s and t, and equals SymmetricDifference(t, s) as a set.
C10_SymmetricDifference ==
    [][(ret'.op = "SymmetricDifference" /\ Unambiguous(ret')) =>
        /\ fault' = "none"
        /\ \A e \in Elem :
               e \in Items(heap'[ret'.val]) <=>
                   (e \in Items(heap[ref[ret'.recv]])) # (e \in Items(heap[ref[ret'.arg]]))
        /\ \A o \in SymmetricDifference(heap', ref'[ret'.arg], ref'[ret'.recv]) :
               /\ o.fault = "none"
               /\ \A q \in IsEqual(o.h, ret'.val, o.val) : q.fault = "none" /\ q.val]_vars

\* The operations that change a set, applied to the object r of heap h: the
\* heaps they may leave.
Mutations(h, r) ==
    {Add(h, r, <<e>>).h : e \in Elem} \cup {Remove(h, r, <<e>>).h : e \in Elem}
        \cup {o.h : o \in Pop(h, r)} \cup {Clear(h, r).h}

\* C11: Union, Difference, Intersection and SymmetricDifference never change
\* their arguments: when one of them returns, every input set holds what it
\* held before the call, and the returned set is a new object, so that no
\* Add, Remove, Pop or Clear on it changes an input.
C11_ArgumentsUnchanged ==
    [][ret'.op \in {"Union", "Difference", "Intersection", "SymmetricDifference"} =>
        /\ fault' = "none"
        /\ \A i \in Inputs(ret') : heap'[i] = heap[i]
        /\ ret'.val \notin Inputs(ret')
        /\ \A h \in Mutations(heap', ret'.val) :
               \A i \in Inputs(ret') : h[i] = heap[i]]_vars

\* Intersection(s, t, more...) of two sets with a common element returned a
\* set holding it, beside its inputs on the heap.
C11_Witness ==
    /\ ret.op = "Intersection"
    /\ Len(ret.items) = MaxMore
    /\ ret.val > 2
    /\ Items(heap[ret.val]) # {}
    /\ Items(heap[ref["s"]]) # Items(heap[ref["t"]])

\* k successive calls of Pop on the object r, nothing else in between: the
\* heap they leave and the pairs they returned, in order.
RECURSIVE Drain(_, _, _)
Drain(h, r, k) ==
    IF k = 0 THEN {[h |-> h, got |-> <<>>]}
    ELSE UNION {{[h |-> d.h, got |-> <<o.val>> \o d.got] : d \in Drain(o.h, r, k - 1)} :
                  o \in Pop(h, r)}

\* The pairs got are n elements of S, pairwise distinct and all found,
\* followed by one that was not found.
Drained(got, S, n) ==
    /\ Len(got) = n + 1
    /\ \A i \in 1..n : got[i].found /\ got[i].item \in S
    /\ \A i \in 1..n, j \in 1..n : got[i].item = got[j].item => i = j
    /\ got[n + 1] = Pair(ZeroT, FALSE)

\* C12: Pop drains a set.  For every variant, a Pop on a set of n > 0
\* elements returns one of them with found = true and takes it out, the
\* n - 1 Pop calls that follow return the n - 1 others and leave the set
\* empty, and the Pop after them, as every Pop on an empty set, returns
\* found = false.
C12_PopDrains ==
    [][ret'.op = "Pop" =>
        LET x == ret'.recv
            S == Items(heap[ref[x]])
            n == Size(heap, ref[x])
        IN  /\ fault' = "none"
            /\ n = 0 => ret'.val = ZeroT /\ ~ret'.ok /\ Size(heap', ref'[x]) = 0
            /\ n > 0 => /\ ret'.ok
                        /\ ret'.val \in S
                        /\ Items(heap'[ref'[x]]) = S \ {ret'.val}
                        /\ Size(heap', ref'[x]) = n - 1
            /\ \A d \in Drain(heap, ref[x], n + 1) :
                   /\ Drained(d.got, S, n)
                   /\ Size(d.h, ref[x]) = 0]_vars

\* The first Pop on a set of MaxElem elements has returned one of them.
C12_Witness ==
    /\ ret.op = "Pop"
    /\ ret.ok
    /\ MaxElem > 1
    /\ Size(heap, ref[ret.recv]) = MaxElem - 1

\* e is a member of the set obj, by the identity of its variant.
Member(obj, e) == \E f \in Items(obj) : SameMember(obj.kind, e, f)

\* C13: for every variant, Has(items...) returns false when it is given no
\* items, and otherwise true exactly when every one of the items is a member
\* of the set (by value, or by hash in the hash-identity set); Has never
\* changes the set.
C13_HasAll ==
    [][ret'.op = "Has" =>
        LET x == ret'.recv
            items == ret'.items
        IN  /\ fault' = "none"
            /\ heap' = heap
            /\ Len(items) = 0 => ~ret'.ok
            /\ Len(items) > 0 =>
                   (ret'.ok <=> \A i \in 1..Len(items) : Member(heap[ref[x]], items[i]))]_vars

\* Has was given a member and then a value that is no member, and returned
\* false.
C13_Witness ==
    /\ ret.op = "Has"
    /\ Len(ret.items) = MaxHas
    /\ MaxHas > 1
    /\ Member(Cur(ret.recv), ret.items[1])
    /\ ~Member(Cur(ret.recv), ret.items[MaxHas])
    /\ ~ret.ok

\* C14: for every variant, s.IsSubset(t) returns true exactly when every
\* element of the argument t is a member of the receiver s; so it returns
\* true for an empty t and for t = s.
C14_IsSubset ==
    [][ret'.op = "IsSubset" =>
        LET s == heap[ref[ret'.recv]]
            t == heap[ref[ret'.arg]]
        IN  /\ fault' = "none"
            /\ ret'.ok <=> \A e \in Items(t) : Member(s, e)
            /\ Items(t) = {} => ret'.ok
            /\ ret'.arg = ret'.recv => ret'.ok]_vars

\* s.IsSubset(t) returned false for a non-empty t that shares an element
\* with s and has one more.
C14_Witness ==
    /\ ret.op = "IsSubset"
    /\ ~ret.ok
    /\ Cur(ret.recv).kind # Cur(ret.arg).kind
    /\ Items(Cur(ret.recv)) # {}
    /\ Items(Cur(ret.recv)) \subseteq Items(Cur(ret.arg))

\* C15: IsSubset and IsSuperset agree: for sets x and y of any variants,
\* x.IsSubset(y) equals y.IsSuperset(x).
C15_SubsetSuperset ==
    [][/\ ret'.op = "IsSubset" =>
            \A o \in IsSuperset(heap, ref[ret'.arg], ref[ret'.recv]) :
                o.fault = "none" /\ o.val = ret'.ok
       /\ ret'.op = "IsSuperset" =>
            /\ fault' = "none"
            /\ \A o \in IsSubset(heap, ref[ret'.arg], ref[ret'.recv]) :
                   o.fault = "none" /\ o.val = ret'.ok
            /\ ret'.ok <=> \A e \in Items(heap[ref[ret'.recv]]) :
                               Member(heap[ref[ret'.arg]], e)]_vars

\* y.IsSuperset(x) returned true for a threadsafe y and a non-threadsafe x
\* that holds more than y.
C15_Witness ==
    /\ ret.op = "IsSuperset"
    /\ ret.ok
    /\ Cur(ret.recv).kind = "ts"
    /\ Cur(ret.arg).kind = "nots"
    /\ Items(Cur(ret.recv)) # {}
    /\ Items(Cur(ret.recv)) # Items(Cur(ret.arg))

\* C16: for every variant, after s.Clear() returns, s.Size() is 0,
\* s.IsEmpty() is true and s.Has(e) is false for every element e.
C16_ClearEmpties ==
    [][ret'.op = "Clear" =>
        LET x == ret'.recv
        IN  /\ fault' = "none"
            /\ Size(heap', ref'[x]) = 0
            /\ IsEmpty(heap', ref'[x])
            /\ \A e \in Elem : ~Has1(heap', ref'[x], e)]_vars

\* The items of the sequence v.
Range1(v) == {v[i] : i \in 1..Len(v)}

\* C17: in the hash-identity set membership is decided by the hash alone.
\* When the set stores a and a distinct b with the same hash is added, the
\* size stays as it was (1 after Add(a); Add(b) on an empty set), Has(a) and
\* Has(b) are both true, and the value stored, which List, Each and Pop hand
\* out, is b, the later insertion, and no longer a.
C17_HashIdentity ==
    [][(ret'.op = "Add" /\ Len(ret'.items) = 1 /\ heap[ref[ret'.recv]].kind = "any") =>
        LET r == ref[ret'.recv]
            b == ret'.items[1]
            k == Hash(b).h
        IN  (k \in DOMAIN heap[r].m /\ heap[r].m[k] # b) =>
                LET a == heap[r].m[k] IN
                /\ fault' = "none"
                /\ Size(heap', r) = Size(heap, r)
                /\ Has1(heap', r, a) /\ Has1(heap', r, b)
                /\ heap'[r].m[k] = b
                /\ \A v \in List(heap', r) : b \in Range1(v) /\ a \notin Range1(v)
                /\ \A o \in Pop(heap', r) : o.val.found /\ o.val.item # a
                /\ Size(heap, r) = 1 => \A o \in Pop(heap', r) : o.val.item = b]_vars

\* t, the copy of a hash-identity set s that stored 1, still stores 1, and
\* s.Add(2) has left s with the one value 2, which answers for 1 as well.
C17_Witness ==
    /\ copied
    /\ ret.op = "Add"
    /\ ret.recv = "s"
    /\ ret.items = <<2>>
    /\ Cur("s").kind = "any"
    /\ Items(Cur("t")) = {1}
    /\ Size(heap, ref["s"]) = 1
    /\ Has1(heap, ref["s"], 1)
    /\ Items(Cur("s")) = {2}

\* The hash of some item of the list fails, and every item before it is a
\* member of obj: Has gets as far as hashing it.
HasNeedsBad(obj, items) ==
    \E i \in 1..Len(items) :
        /\ Hash(items[i]).err
        /\ \A j \in 1..(i - 1) : Member(obj, items[j])

\* C18: in the hash-identity set, an operation that needs the hash of an
\* element whose Hash returns an error ends in a panic: Add and Remove of a
\* list with such an element, Has when it gets to it, Merge of a set holding
\* it, and IsSubset and IsEqual of such a set whenever every other item of it
\* is found (and, for IsEqual, the sizes agree).  No call panics otherwise,
\* and no call on another variant panics.
C18_HashErrorPanics ==
    [][ret'.op # "idle" =>
        LET s == heap[ref[ret'.recv]]
            t == heap[ref[ret'.arg]]
            items == ret'.items
            bad == {e \in Items(t) : Hash(e).err}
            rest == \A e \in Items(t) \ bad : Member(s, e)
        IN  /\ fault' = "panic" => s.kind = "any"
            /\ s.kind = "any" => fault' \in {"none", "panic"}
            /\ (s.kind = "any" /\ ret'.op \in {"Add", "Remove"}) =>
                   (fault' = "panic" <=> \E i \in 1..Len(items) : Hash(items[i]).err)
            /\ (s.kind = "any" /\ ret'.op = "Has") =>
                   (fault' = "panic" <=> HasNeedsBad(s, items))
            /\ (s.kind = "any" /\ ret'.op = "Merge") =>
                   (fault' = "panic" <=> bad # {})
            /\ (s.kind = "any" /\ ret'.op = "IsSubset") =>
                   /\ fault' = "panic" => bad # {}
                   /\ (bad # {} /\ rest) => fault' = "panic"
            /\ (s.kind = "any" /\ ret'.op = "IsEqual") =>
                   /\ fault' = "panic" => bad # {}
                   /\ (bad # {} /\ rest /\ MapLen(s.m) = MapLen(t.m)) => fault' = "panic"]_vars

\* s.IsEqual(t) on a hash-identity s has panicked over a t of the same size
\* that holds the element whose hash fails.
C18_Witness ==
    /\ fault = "panic"
    /\ ret.op = "IsEqual"
    /\ Cur(ret.recv).kind = "any"
    /\ BadElem \in Items(Cur(ret.arg))
    /\ Size(heap, ref[ret.recv]) = 1

\* C19: every Merge on synchronized sets that was entered returns, s.Merge(s)
\* and A.Merge(B) beside B.Merge(A) included: as long as a goroutine is
\* inside a call, some goroutine can take a step.
C19_MergeReturns ==
    (\E w \in Workers : workers[w].pc # "idle") => ENABLED NextMerge

\* C20: a goroutine that reads the map of a synchronized set holds the set's
\* mutex for reading or for writing, one that writes it holds the mutex for
\* writing, and so no goroutine writes a map another goroutine is reading
\* or writing.
C20_LockDiscipline ==
    \A w \in Workers :
        /\ \A a \in Accessing(w) : Holds(w, a[1], a[2])
        /\ ~Racing(w)

\* C21: IsEqual takes the receiver's read lock first and the argument's
\* second, and A.IsEqual(B) beside B.IsEqual(A), with other goroutines
\* calling Add on A and B, lets every call return: as long as a goroutine is
\* inside a call, some goroutine can take a step.
C21_IsEqualReturns ==
    (\E w \in Workers : workers[w].pc # "idle") => ENABLED NextEqual

\* C22: Pop on a synchronized set chooses its item holding the read lock
\* only, has released it when it asks for the write lock, and deletes the
\* item holding the write lock only; so the item it returns with true was in
\* the map when it was chosen, not when it was deleted.
C22_PopInTwoPhases ==
    \A w \in Workers :
        (workers[w].pc = "run" /\ workers[w].op = "Pop") =>
            LET l == locks[ref[workers[w].recv]] IN
            /\ At(w).do = "range" => l.readers[w] = 1 /\ l.writer # w
            /\ At(w).do = "LockAsk" =>
                   l.readers[w] = 0 /\ l.writer # w /\ w \notin l.waiting /\ workers[w].ok
            /\ At(w).do = "delete" => l.readers[w] = 0 /\ l.writer = w /\ workers[w].ok

\* Two Pop calls on the same set have both returned the same item with
\* true.
C22_Witness ==
    \E w \in Workers, v \in Workers :
        /\ w # v
        /\ workers[w].pc = "ret" /\ workers[v].pc = "ret"
        /\ workers[w].op = "Pop" /\ workers[v].op = "Pop"
        /\ workers[w].recv = workers[v].recv
        /\ workers[w].ok /\ workers[v].ok
        /\ workers[w].item = workers[v].item
        /\ workers[w].item \notin DOMAIN Cur(workers[w].recv).m

\* The mutexes goroutine w holds or waits for.
Held(w) ==
    {o \in DOMAIN locks :
        locks[o].writer = w \/ locks[o].readers[w] > 0 \/ w \in locks[o].waiting}

\* C23: when a method of a synchronized set returns, on whatever path, the
\* calling goroutine holds no read or write lock of the receiver or of the
\* argument.
C23_LocksReleased ==
    \A w \in Workers : workers[w].pc \in {"idle", "ret"} => Held(w) = {}

\* IsEqual has returned false early, the sizes of the two sets differing,
\* while another goroutine is inside Add.
C23_Witness ==
    \E w \in Workers, v \in Workers :
        /\ workers[w].pc = "ret" /\ workers[w].op = "IsEqual" /\ ~workers[w].ok
        /\ workers[w].recv # workers[w].arg
        /\ MapLen(Cur(workers[w].recv).m) # MapLen(Cur(workers[w].arg).m)
        /\ workers[v].pc = "run" /\ workers[v].op = "Add"

====
